---- MODULE Spec2Model ----
(***************************************************************************)
(* Model of the buyer <-> farmer messaging subsystem of localfarmconnect:  *)
(* the Conversation and Message tables (users/models.py), the messaging    *)
(* views (users/messaging/views.py, duplicated in users/views.py), the     *)
(* automation gateway (users/api/views.py) and the webhook dispatcher      *)
(* (users/webhook.py); and of the shop (users/views.py): the session cart, *)
(* checkout, and the order lifecycle.                                      *)
(***************************************************************************)
EXTENDS Integers, Sequences, FiniteSets, Bags, TLC

\* ------------------------------------------------------------------ bounds
MaxMsgs == 2        \* rows the Message table may hold
MaxTime == 1        \* last value of the wall clock
MaxReq == 2         \* requests that may be inside get_or_create at once
MaxConvs == 2       \* rows the Conversation table may hold
MaxStock == 2       \* units of a product a farmer has put on sale
MaxOrders == 2      \* rows of the Order table after which no checkout begins

\* ------------------------------------------------- users and the catalogue
Users == {"b1", "b2", "f1", "f2"}

\* User.user_type
user_type == [u \in Users |-> IF u \in {"b1", "b2"} THEN "buyer" ELSE "farmer"]

Products == {"p1", "p2"}

\* a product id that get_object_or_404(Product, ...) does not find
NoSuchProduct == "p0"

\* product.farmer.user: FarmerProfile rows exist for farmer accounts only; both
\* products are f1's, f2 has none
ProductFarmer == [p \in Products |-> "f1"]

\* ----------------------------------------------------------------- content
\* message texts, as sequences of characters
Contents == {<<>>, <<" ">>, <<"a">>}

RECURSIVE LStrip(_)
LStrip(s) ==
    IF s = <<>> THEN s
    ELSE IF Head(s) = " " THEN LStrip(Tail(s)) ELSE s

RECURSIVE RStrip(_)
RStrip(s) ==
    IF s = <<>> THEN s
    ELSE IF s[Len(s)] = " " THEN RStrip(SubSeq(s, 1, Len(s) - 1)) ELSE s

\* str.strip()
Strip(s) == RStrip(LStrip(s))

\* ------------------------------------------------------------------- state
VARIABLES
    conversations,  \* Conversation table; the row's id is its index
    messages,       \* Message table; the row's id is its index
    threads,        \* threads[m]: the webhook thread of message m
    reqs,           \* bag of the requests between the lookup and the insert
                    \* of get_or_create
    now,            \* the wall clock
    N8N_ENABLED,    \* settings.N8N_ENABLED
    response,       \* the result of the latest handler or model call
    products,       \* the ids of the Product rows that exist
    stock,          \* stock[p]: Product.quantity_available
    cart,           \* cart[b]: session['cart'] of buyer b, product -> quantity
    orders,         \* Order table; the row's id is its index
    order_items,    \* OrderItem table
    payments,       \* Payment table
    locks,          \* locks[p]: the transaction holding the row lock of p
    checkouts       \* checkouts[b]: the checkout request of b in progress

\* the shop's state
shop == <<products, stock, cart, orders, order_items, payments, locks,
          checkouts>>

vars == <<conversations, messages, threads, reqs, now, N8N_ENABLED, response,
          products, stock, cart, orders, order_items, payments, locks,
          checkouts>>

\* the accounts BuyerRequiredMixin lets through
Buyers == {u \in Users : user_type[u] = "buyer"}

\* a session cart with no line
EmptyCart == [p \in {} |-> 0]

\* a row nobody has locked
Unlocked == "unlocked"

\* no checkout in progress; seen[p] is quantity_available of p as the
\* running checkout read it under its lock
NoCheckout == [pc |-> "idle", seen |-> EmptyCart]

\* the shop as the farmers stocked it, before any buyer acts
ShopInit ==
    /\ products = Products
    /\ stock = [p \in Products |-> MaxStock]
    /\ cart = [b \in Buyers |-> EmptyCart]
    /\ orders = <<>>
    /\ order_items = {}
    /\ payments = <<>>
    /\ locks = [p \in Products |-> Unlocked]
    /\ checkouts = [b \in Buyers |-> NoCheckout]

\* the webhook thread of a message that has none (an automated message)
NoThread == [pc |-> "none", posts |-> 0, log |-> "none"]

\* listed: the ids of the messages a page shows, in the order it shows them
NoResponse ==
    [op |-> "none", status |-> "none", id |-> 0, created |-> FALSE,
     listed |-> <<>>]

Resp(op, status, id, created) ==
    [op |-> op, status |-> status, id |-> id, created |-> created,
     listed |-> <<>>]

Init ==
    /\ conversations = <<>>
    /\ messages = <<>>
    /\ threads = <<>>
    /\ reqs = EmptyBag
    /\ now = 0
    /\ N8N_ENABLED \in BOOLEAN
    /\ response = NoResponse
    /\ ShopInit

\* ------------------------------------------------------ Conversation store
\* the NULL of a nullable foreign key
NULL == "null"

\* mutant of ConvIdsWith: the lookup leaves the product out
ConvIdsWith_IgnoringProduct(convs, b, f, p) ==
    {i \in DOMAIN convs : convs[i].buyer = b /\ convs[i].farmer = f}

\* Conversation.objects.filter(buyer=b, farmer=f, product=p)
ConvIdsWith(convs, b, f, p) ==
    {i \in DOMAIN convs :
        /\ convs[i].buyer = b
        /\ convs[i].farmer = f
        /\ convs[i].product = p}

\* mutant of UniqueTogetherViolated: no unique constraint on the table
UniqueTogetherViolated_NoConstraint(convs, b, f, p) == FALSE

\* unique_together = ("buyer", "farmer", "product"): the storage layer rejects
\* the insert of a second row with the same triple (rows with a NULL product
\* never collide)
UniqueTogetherViolated(convs, b, f, p) ==
    /\ p # NULL
    /\ ConvIdsWith(convs, b, f, p) # {}

\* a new Conversation row: auto_now sets updated_at
NewConversation(b, f, p) ==
    [buyer |-> b, farmer |-> f, product |-> p, updated_at |-> now]

\* mutant of Touch: the save of the conversation leaves updated_at alone
Touch_NoAutoNow(convs, c) == convs

\* Conversation.save(): auto_now refreshes updated_at
Touch(convs, c) == [convs EXCEPT ![c].updated_at = now]

\* mutant of unread_count: the user's own messages are counted too
unread_count_CountsOwn(msgs, c, user) ==
    Cardinality({m \in DOMAIN msgs :
        msgs[m].conversation = c /\ msgs[m].is_read = FALSE})

\* Conversation.unread_count(user)
unread_count(msgs, c, user) ==
    Cardinality({m \in DOMAIN msgs :
        /\ msgs[m].conversation = c
        /\ msgs[m].is_read = FALSE
        /\ msgs[m].sender # user})

\* ----------------------------------------------------------- Message store
\* mutant of MessageClean: any sender passes
MessageClean_AnySender(conv, sender) == TRUE

\* Message.clean
MessageClean(conv, sender) == sender \in {conv.buyer, conv.farmer}

\* Message.full_clean: the blank check of the content field, then clean()
FullClean(conv, sender, content) ==
    /\ content # <<>>
    /\ MessageClean(conv, sender)

\* the thread trigger_n8n_webhook_async starts
StartedThread == [pc |-> "started", posts |-> 0, log |-> "none"]

\* the requests in flight that will create a message
CreatesInFlight ==
    BagCardinality([q \in {x \in BagToSet(reqs) : x.view = "create"} |-> reqs[q]])

\* the Message table has room for one more row, counting the rows the
\* requests in flight will add
MsgRoom == Len(messages) + CreatesInFlight < MaxMsgs

\* mutant of MessageSave: save calls trigger_n8n_webhook itself and returns
\* when the POST has been answered
MessageSave_SyncDispatch(convs, c, sender, content, automated) ==
    /\ messages' = Append(messages,
            [conversation |-> c, sender |-> sender, content |-> content,
             timestamp |-> now, is_read |-> FALSE, is_automated |-> automated])
    /\ conversations' = Touch(convs, c)
    /\ threads' = Append(threads,
            IF automated THEN NoThread
            ELSE IF ~N8N_ENABLED \/ sender # convs[c].buyer
            THEN [pc |-> "done", posts |-> 0, log |-> "returned"]
            ELSE [pc |-> "done", posts |-> 1, log |-> "info_success"])

\* mutant of MessageSave: the webhook thread is started for automated
\* messages too
MessageSave_AlwaysDispatch(convs, c, sender, content, automated) ==
    /\ messages' = Append(messages,
            [conversation |-> c, sender |-> sender, content |-> content,
             timestamp |-> now, is_read |-> FALSE, is_automated |-> automated])
    /\ conversations' = Touch(convs, c)
    /\ threads' = Append(threads, StartedThread)

\* Message.save() of a new row on the conversation table convs, after
\* full_clean passed: insert, touch the conversation, start the webhook thread
MessageSave(convs, c, sender, content, automated) ==
    /\ messages' = Append(messages,
            [conversation |-> c, sender |-> sender, content |-> content,
             timestamp |-> now, is_read |-> FALSE, is_automated |-> automated])
    /\ conversations' = Touch(convs, c)
    /\ threads' = Append(threads, IF ~automated THEN StartedThread ELSE NoThread)

\* Message.objects.create(conversation=c, sender=..., content=..., is_automated=...)
ModelAppend(c, sender, content, automated) ==
    /\ c \in DOMAIN conversations
    /\ MsgRoom
    /\ IF FullClean(conversations[c], sender, content)
       THEN /\ MessageSave(conversations, c, sender, content, automated)
            /\ response' = Resp("append", "ok", Len(messages) + 1, TRUE)
       ELSE /\ response' = Resp("append", "ValidationError", 0, FALSE)
            /\ UNCHANGED <<conversations, messages, threads>>
    /\ UNCHANGED <<reqs, now, N8N_ENABLED>>

\* the ids of the messages of conversation c
MessagesOf(msgs, c) == {m \in DOMAIN msgs : msgs[m].conversation = c}

\* conversation.messages.all(), under Meta.ordering = ["timestamp"]: the rows
\* of c in ascending timestamp order.  ORDER BY names no second column, so
\* the storage layer may return rows of equal timestamp in any order.
ListOrdered(msgs, c) ==
    LET ids == MessagesOf(msgs, c) IN
    {l \in [1..Cardinality(ids) -> ids] :
        /\ \A i, j \in DOMAIN l : i # j => l[i] # l[j]
        /\ \A i, j \in DOMAIN l :
                i < j => msgs[l[i]].timestamp <= msgs[l[j]].timestamp}

\* mutant of MarkAsRead: the flag is written through Message.save, which
\* saves the conversation too
MarkAsRead_ThroughSave(m) ==
    /\ m \in DOMAIN messages
    /\ IF ~messages[m].is_read
       THEN /\ messages' = [messages EXCEPT ![m].is_read = TRUE]
            /\ conversations' = [conversations EXCEPT
                    ![messages[m].conversation].updated_at = now]
       ELSE UNCHANGED <<messages, conversations>>
    /\ response' = Resp("mark_as_read", "ok", m, FALSE)
    /\ UNCHANGED <<threads, reqs, now, N8N_ENABLED>>

\* mutant of MarkAsRead: the flag is flipped whatever it was
MarkAsRead_Toggle(m) ==
    /\ m \in DOMAIN messages
    /\ messages' = [messages EXCEPT ![m].is_read = ~@]
    /\ response' = Resp("mark_as_read", "ok", m, FALSE)
    /\ UNCHANGED <<conversations, threads, reqs, now, N8N_ENABLED>>

\* Message.mark_as_read
MarkAsRead(m) ==
    /\ m \in DOMAIN messages
    /\ IF ~messages[m].is_read
       THEN messages' = [messages EXCEPT ![m].is_read = TRUE]
       ELSE UNCHANGED messages
    /\ response' = Resp("mark_as_read", "ok", m, FALSE)
    /\ UNCHANGED <<conversations, threads, reqs, now, N8N_ENABLED>>

\* ------------------------------------------------------------ get_or_create
\* the request is past the lookup of get_or_create, which found no row
InFlight(view, u, f, p, content) ==
    [view |-> view, user |-> u, farmer |-> f, product |-> p, content |-> content]

\* mutant of AfterGetOrCreate: CreateConversationView creates no initial
\* message
AfterGetOrCreate_NoMessage(view, convs, c, u, content, created) ==
    /\ conversations' = convs
    /\ response' = Resp(CASE view = "create" -> "create_conversation"
                          [] view = "quick" -> "start_product_conversation"
                          [] OTHER -> "get_or_create",
                        IF view = "model" THEN "ok" ELSE "302", c, created)
    /\ UNCHANGED <<messages, threads>>

\* what the caller does with the conversation c get_or_create returned, on
\* the conversation table convs: the quick start redirects,
\* CreateConversationView creates the initial message, a direct call of the
\* manager ("model") has the pair (row, created)
AfterGetOrCreate(view, convs, c, u, content, created) ==
    IF view = "create"
    THEN /\ MessageSave(convs, c, u, content, FALSE)
         /\ response' = Resp("create_conversation", "302", c, created)
    ELSE IF view = "quick"
    THEN /\ conversations' = convs
         /\ response' = Resp("start_product_conversation", "302", c, created)
         /\ UNCHANGED <<messages, threads>>
    ELSE /\ conversations' = convs
         /\ response' = Resp("get_or_create", "ok", c, created)
         /\ UNCHANGED <<messages, threads>>

\* the handler ends with an error status and writes nothing
Fail(op, status) ==
    /\ response' = Resp(op, status, 0, FALSE)
    /\ UNCHANGED <<conversations, messages, threads, reqs, now, N8N_ENABLED>>

ViewOp(view) ==
    CASE view = "create" -> "create_conversation"
      [] view = "quick" -> "start_product_conversation"
      [] OTHER -> "get_or_create"

\* Conversation.objects.get_or_create(buyer=u, farmer=f, product=p), first
\* half: the lookup.  A hit returns (row, False); a miss leaves the request
\* in flight until its insert.
GetOrCreateLookup(view, u, f, p, content) ==
    LET found == ConvIdsWith(conversations, u, f, p) IN
    IF Cardinality(found) > 1
    THEN Fail(ViewOp(view),                  \* MultipleObjectsReturned
              IF view = "model" THEN "MultipleObjectsReturned" ELSE "500")
    ELSE IF found # {}
    THEN /\ AfterGetOrCreate(view, conversations, CHOOSE c \in found : TRUE,
                             u, content, FALSE)
         /\ UNCHANGED <<reqs, now, N8N_ENABLED>>
    ELSE /\ BagCardinality(reqs) < MaxReq
         /\ Len(conversations) + BagCardinality(reqs) < MaxConvs
         /\ reqs' = reqs (+) SetToBag({InFlight(view, u, f, p, content)})
         /\ UNCHANGED <<conversations, messages, threads, now, N8N_ENABLED,
                        response>>

\* get_or_create, second half: the insert.  A uniqueness violation
\* (IntegrityError) is answered by fetching the row that won.
GetOrCreateInsert(q) ==
    /\ BagIn(q, reqs)
    /\ reqs' = reqs (-) SetToBag({q})
    /\ IF UniqueTogetherViolated(conversations, q.user, q.farmer, q.product)
       THEN AfterGetOrCreate(q.view, conversations,
                CHOOSE c \in ConvIdsWith(conversations, q.user, q.farmer, q.product) : TRUE,
                q.user, q.content, FALSE)
       ELSE AfterGetOrCreate(q.view,
                Append(conversations, NewConversation(q.user, q.farmer, q.product)),
                Len(conversations) + 1, q.user, q.content, TRUE)
    /\ UNCHANGED <<now, N8N_ENABLED>>

\* Conversation.objects.get_or_create(buyer=b, farmer=f, product=p) called on
\* the manager, up to the lookup; p may be NULL.  Model.save does not run
\* full_clean, so Conversation.clean is not part of the call.
ModelGetOrCreate(b, f, p) == GetOrCreateLookup("model", b, f, p, <<>>)

\* --------------------------------------------------------- messaging views
\* mutant of StartProductConversation: the role of the user is not checked
StartProductConversation_NoRoleCheck(u, p) ==
    IF p \notin Products
    THEN Fail("start_product_conversation", "404")
    ELSE IF u = ProductFarmer[p]
    THEN Fail("start_product_conversation", "403")
    ELSE GetOrCreateLookup("quick", u, ProductFarmer[p], p, <<>>)

\* start_product_conversation(request, product_id), up to the lookup
StartProductConversation(u, p) ==
    IF p \notin Products
    THEN Fail("start_product_conversation", "404")
    ELSE IF user_type[u] # "buyer"
    THEN Fail("start_product_conversation", "403")
    ELSE IF u = ProductFarmer[p]
    THEN Fail("start_product_conversation", "403")
    ELSE GetOrCreateLookup("quick", u, ProductFarmer[p], p, <<>>)

\* mutant of CreateConversation: the view lacks BuyerRequiredMixin
CreateConversation_NoBuyerMixin(u, p, text) ==
    IF p \notin Products
    THEN Fail("create_conversation", "404")
    ELSE IF u = ProductFarmer[p]
    THEN Fail("create_conversation", "403")
    ELSE IF Strip(text) = <<>>
    THEN Fail("create_conversation", "200")
    ELSE /\ MsgRoom
         /\ GetOrCreateLookup("create", u, ProductFarmer[p], p, Strip(text))

\* CreateConversationView.dispatch and .post, up to the lookup
CreateConversation(u, p, text) ==
    IF p \notin Products
    THEN Fail("create_conversation", "404")
    ELSE IF u = ProductFarmer[p]
    THEN Fail("create_conversation", "403")
    ELSE IF user_type[u] # "buyer"
    THEN Fail("create_conversation", "403")
    ELSE IF Strip(text) = <<>>
    THEN Fail("create_conversation", "200")  \* the form again, with an error
    ELSE /\ MsgRoom
         /\ GetOrCreateLookup("create", u, ProductFarmer[p], p, Strip(text))

\* mutant of GetConversation: every logged-in user may open the conversation
GetConversation_NoParticipantCheck(u, pk) ==
    IF pk \notin DOMAIN conversations THEN "404" ELSE "ok"

\* ConversationAccessMixin.get_conversation: "ok", or the status it fails with
GetConversation(u, pk) ==
    IF pk \notin DOMAIN conversations THEN "404"
    ELSE IF u \notin {conversations[pk].buyer, conversations[pk].farmer} THEN "403"
    ELSE "ok"

\* MessageCreateView.post
MessageCreate(u, pk, text) ==
    IF GetConversation(u, pk) # "ok"
    THEN Fail("message_create", GetConversation(u, pk))
    ELSE IF Strip(text) = <<>>
    THEN /\ response' = Resp("message_create", "302", 0, FALSE)
         /\ UNCHANGED <<conversations, messages, threads, reqs, now, N8N_ENABLED>>
    ELSE /\ MsgRoom
         /\ MessageSave(conversations, pk, u, Strip(text), FALSE)
         /\ response' = Resp("message_create", "302", Len(messages) + 1, TRUE)
         /\ UNCHANGED <<reqs, now, N8N_ENABLED>>

\* mutant of ConversationDetail: every unread message of the conversation is
\* marked read, the user's own too
ConversationDetail_MarksOwn(u, pk) ==
    IF GetConversation(u, pk) # "ok"
    THEN Fail("conversation_detail", GetConversation(u, pk))
    ELSE /\ messages' = [m \in DOMAIN messages |->
                IF messages[m].conversation = pk
                THEN [messages[m] EXCEPT !.is_read = TRUE]
                ELSE messages[m]]
         /\ \E l \in ListOrdered(messages', pk) :
                response' = [Resp("conversation_detail", "200", pk, FALSE)
                                EXCEPT !.listed = l]
         /\ UNCHANGED <<conversations, threads, reqs, now, N8N_ENABLED>>

\* ConversationDetailView.get: marks the other side's unread messages read,
\* then lists the messages of the conversation
ConversationDetail(u, pk) ==
    IF GetConversation(u, pk) # "ok"
    THEN Fail("conversation_detail", GetConversation(u, pk))
    ELSE /\ messages' = [m \in DOMAIN messages |->
                IF /\ messages[m].conversation = pk
                   /\ messages[m].is_read = FALSE
                   /\ messages[m].sender # u
                THEN [messages[m] EXCEPT !.is_read = TRUE]
                ELSE messages[m]]
         /\ \E l \in ListOrdered(messages', pk) :
                response' = [Resp("conversation_detail", "200", pk, FALSE)
                                EXCEPT !.listed = l]
         /\ UNCHANGED <<conversations, threads, reqs, now, N8N_ENABLED>>

\* ------------------------------------------------------ automation gateway
\* settings.N8N_SECRET_KEY
N8N_SECRET_KEY == "secret"

\* the X-AUTO-SECRET header: missing, empty, wrong or right
Headers == {NULL, "", "wrong", N8N_SECRET_KEY}

\* JSON values of the two fields of the body
Missing == [type |-> "missing", val |-> 0]
IntVal(n) == [type |-> "int", val |-> n]
StrVal(t) == [type |-> "str", val |-> t]

\* request bodies: not JSON, JSON that is no object, or an object whose
\* conversation_id is missing, an integer or a non-numeric string and whose
\* message is missing, a number or a string
Bodies ==
    {[kind |-> "invalid_json", conversation_id |-> Missing, message |-> Missing],
     [kind |-> "not_object", conversation_id |-> Missing, message |-> Missing]}
    \cup
    [kind : {"object"},
     conversation_id : {Missing, StrVal(<<"a">>)}
                       \cup {IntVal(n) : n \in 0..(Len(conversations) + 1)},
     message : {Missing, IntVal(5)} \cup {StrVal(t) : t \in Contents}]

\* Python truthiness of a JSON value
Truthy(v) ==
    CASE v.type = "missing" -> FALSE
      [] v.type = "int" -> v.val # 0
      [] v.type = "str" -> v.val # <<>>

\* mutant of Unauthorized: a request without the header passes
Unauthorized_MissingPasses(header) ==
    header \notin {NULL, ""} /\ header # N8N_SECRET_KEY

\* the check of the X-AUTO-SECRET header
Unauthorized(header) == header \in {NULL, ""} \/ header # N8N_SECRET_KEY

\* SendAutoMessageView.post
SendAutoMessage(header, body) ==
    IF Unauthorized(header)
    THEN Fail("send_auto_message", "401")
    ELSE IF body.kind = "invalid_json"
    THEN Fail("send_auto_message", "400")        \* json.JSONDecodeError
    ELSE IF body.kind = "not_object"
    THEN Fail("send_auto_message", "500")        \* data.get: AttributeError
    ELSE IF body.message.type = "int"
    THEN Fail("send_auto_message", "500")        \* .strip(): AttributeError
    ELSE LET content == IF body.message.type = "missing" THEN <<>>
                        ELSE Strip(body.message.val)
             cid == body.conversation_id
         IN  IF ~Truthy(cid) \/ content = <<>>
             THEN Fail("send_auto_message", "400")
             ELSE IF cid.type = "str"
             THEN Fail("send_auto_message", "500")    \* pk lookup: ValueError
             ELSE IF cid.val \notin DOMAIN conversations
             THEN Fail("send_auto_message", "500")    \* Http404, caught by
                                                      \* except Exception
             ELSE /\ MsgRoom
                  /\ MessageSave(conversations, cid.val,
                                 conversations[cid.val].farmer, content, TRUE)
                  /\ response' = Resp("send_auto_message", "201",
                                      Len(messages) + 1, TRUE)
                  /\ UNCHANGED <<reqs, now, N8N_ENABLED>>

\* ------------------------------------------------------ webhook dispatcher
\* create_retry_session(retries=2)
RETRIES == 2

\* status_forcelist of create_retry_session
status_forcelist == {"500", "502", "503", "504"}

\* Retry's allowed_methods is left at the library default, which has no POST
allowed_methods == {"HEAD", "GET", "PUT", "DELETE", "OPTIONS", "TRACE"}

\* what one POST attempt can end with: a response status, or an error of the
\* transport
Statuses == {"200", "404", "503"}
ConnectErrors == {"ConnectTimeoutError", "NewConnectionError"}
ReadErrors == {"ReadTimeoutError", "ProtocolError"}
Outcomes == Statuses \cup ConnectErrors \cup ReadErrors \cup {"Exception"}

\* mutant of Retried: the budget allows one retry too many
Retried_OffByOne(method, outcome, failed) ==
    /\ failed <= RETRIES
    /\ \/ outcome \in status_forcelist /\ method \in allowed_methods
       \/ outcome \in ReadErrors /\ method \in allowed_methods
       \/ outcome \in ConnectErrors

\* mutant of Retried: every attempt that does not end with 200 is retried
Retried_EveryFailure(method, outcome, failed) ==
    /\ failed < RETRIES
    /\ outcome # "200"

\* Retry.is_retry(method, status) and the retry of a failed attempt: a status
\* is retried only for an allowed method, a read error likewise, a connect
\* error for every method; failed counts the attempts that failed so far
Retried(method, outcome, failed) ==
    /\ failed < RETRIES
    /\ \/ outcome \in status_forcelist /\ method \in allowed_methods
       \/ outcome \in ReadErrors /\ method \in allowed_methods
       \/ outcome \in ConnectErrors

\* mutant of LogOf: no catch-all handler, an unexpected exception escapes
LogOf_NoCatchAll(outcome) ==
    CASE outcome = "200" -> "info_success"
      [] outcome \in Statuses \ {"200"} -> "warning_status"
      [] outcome \in {"ConnectTimeoutError", "ReadTimeoutError"} -> "error_timeout"
      [] outcome \in {"NewConnectionError", "ProtocolError"} -> "error_connection"
      [] OTHER -> "uncaught"

\* the branch of trigger_n8n_webhook that ends the call, and what it logs
LogOf(outcome) ==
    CASE outcome = "200" -> "info_success"
      [] outcome \in Statuses \ {"200"} -> "warning_status"
      [] outcome \in {"ConnectTimeoutError", "ReadTimeoutError"} -> "error_timeout"
      [] outcome \in {"NewConnectionError", "ProtocolError"} -> "error_connection"
      [] OTHER -> "error_other"

\* mutant of Guarded: the sender of the message is not looked at
Guarded_NoSenderCheck(m) ==
    \/ messages[m].is_automated
    \/ ~N8N_ENABLED

\* the three guards of trigger_n8n_webhook: no POST for message m
Guarded(m) ==
    \/ messages[m].is_automated
    \/ ~N8N_ENABLED
    \/ messages[m].sender # conversations[messages[m].conversation].buyer

\* trigger_n8n_webhook, up to the first POST
WebhookGuards(m) ==
    /\ m \in DOMAIN threads
    /\ threads[m].pc = "started"
    /\ IF Guarded(m)
       THEN threads' = [threads EXCEPT ![m].pc = "done", ![m].log = "returned"]
       ELSE threads' = [threads EXCEPT ![m].pc = "post"]
    /\ UNCHANGED <<conversations, messages, reqs, now, N8N_ENABLED, response>>

\* one POST attempt of session.post and what follows it: a retry, or the
\* branch that logs and ends the thread
WebhookPost(m, outcome) ==
    /\ m \in DOMAIN threads
    /\ threads[m].pc = "post"
    /\ IF Retried("POST", outcome, threads[m].posts)
       THEN threads' = [threads EXCEPT ![m].posts = @ + 1]
       ELSE threads' = [threads EXCEPT ![m].posts = @ + 1, ![m].pc = "done",
                                       ![m].log = LogOf(outcome)]
    /\ UNCHANGED <<conversations, messages, reqs, now, N8N_ENABLED, response>>

\* ------------------------------------------------------------------- clock
Tick ==
    /\ now < MaxTime
    /\ now' = now + 1
    /\ UNCHANGED <<conversations, messages, threads, reqs, N8N_ENABLED, response>>

\* ---------------------------------------------------------------- the shop
\* the messaging state, which no shop view touches
messaging == <<conversations, messages, threads, reqs, now, N8N_ENABLED>>

\* what a quantity field of a form may hold: nothing, or digits (no unit,
\* one unit, more than any stock)
Quantities == {IntVal(n) : n \in {0, 1, MaxStock + 1}} \cup {Missing}

\* int(raw), with the value the view falls back to on TypeError, ValueError
ParseInt(raw, fallback) == IF raw.type = "int" THEN raw.val ELSE fallback

Max(a, b) == IF a >= b THEN a ELSE b

Min(a, b) == IF a <= b THEN a ELSE b

\* cart.get(pid, {}).get('quantity', 0)
Quantity(c, p) == IF p \in DOMAIN c THEN c[p] ELSE 0

\* cart[pid] = {'quantity': n}
CartPut(c, p, n) == [q \in DOMAIN c \cup {p} |-> IF q = p THEN n ELSE c[q]]

\* cart.pop(pid, None)
CartPop(c, p) == [q \in DOMAIN c \ {p} |-> c[q]]

\* a shop view that ends without writing anything
ShopFail(op, status) ==
    /\ response' = Resp(op, status, 0, FALSE)
    /\ UNCHANGED messaging
    /\ UNCHANGED shop

\* a session serves one request at a time: no cart request of a buyer runs
\* while the buyer's checkout is in progress
SessionFree(u) == u \in Buyers => checkouts[u].pc = "idle"

\* CartAddView.post
CartAdd(u, p, raw) ==
    /\ SessionFree(u)
    /\ IF user_type[u] # "buyer"
       THEN ShopFail("cart_add", "403")
       ELSE IF p \notin products
       THEN ShopFail("cart_add", "404")
       ELSE IF stock[p] <= 0
       THEN ShopFail("cart_add", "out_of_stock")
       ELSE LET qty == Max(ParseInt(raw, 1), 1)
                new_qty == Quantity(cart[u], p) + qty
                stored == IF new_qty > stock[p] THEN stock[p] ELSE new_qty
            IN  /\ cart' = [cart EXCEPT ![u] = CartPut(@, p, stored)]
                /\ response' = Resp("cart_add", "ok", 0, FALSE)
                /\ UNCHANGED messaging
                /\ UNCHANGED <<products, stock, orders, order_items, payments,
                               locks, checkouts>>

\* CartRemoveView.post
CartRemove(u, p) ==
    /\ SessionFree(u)
    /\ IF user_type[u] # "buyer"
       THEN ShopFail("cart_remove", "403")
       ELSE /\ cart' = [cart EXCEPT ![u] = CartPop(@, p)]
            /\ response' = Resp("cart_remove", "ok", 0, FALSE)
            /\ UNCHANGED messaging
            /\ UNCHANGED <<products, stock, orders, order_items, payments,
                           locks, checkouts>>

\* the form of CartUpdateView without a 'remove' field
NoRemove == "none"

\* the forms CartUpdateView is sent: one that removes a line, or one with a
\* quantity field per product
UpdateForms ==
    {[remove |-> r, form |-> [p \in Products |-> Missing]] : r \in Products}
    \cup {[remove |-> NoRemove, form |-> f] : f \in [Products -> Quantities]}

\* CartUpdateView.post: form[p] is the field qty_<p>
CartUpdate(u, remove, form) ==
    /\ SessionFree(u)
    /\ IF user_type[u] # "buyer"
       THEN ShopFail("cart_update", "403")
       ELSE /\ IF remove # NoRemove
               THEN cart' = [cart EXCEPT ![u] = CartPop(@, remove)]
               ELSE LET qty(p) == ParseInt(form[p], Quantity(cart[u], p))
                        kept == {p \in DOMAIN cart[u] \cap products : qty(p) > 0}
                    IN  cart' = [cart EXCEPT ![u] =
                            [p \in kept |-> Min(qty(p), Max(stock[p], 0))]]
            /\ response' = Resp("cart_update", "ok", 0, FALSE)
            /\ UNCHANGED messaging
            /\ UNCHANGED <<products, stock, orders, order_items, payments,
                           locks, checkouts>>

\* CheckoutView.post up to the query: the empty cart is turned away, any
\* other cart opens the transaction
CheckoutBegin(u) ==
    /\ SessionFree(u)
    /\ IF user_type[u] # "buyer"
       THEN ShopFail("checkout", "403")
       ELSE IF DOMAIN cart[u] = {}
       THEN ShopFail("checkout", "cart_empty")
       ELSE /\ checkouts' = [checkouts EXCEPT
                    ![u] = [pc |-> "locking", seen |-> EmptyCart]]
            /\ response' = Resp("checkout", "begun", 0, FALSE)
            /\ UNCHANGED messaging
            /\ UNCHANGED <<products, stock, cart, orders, order_items,
                           payments, locks>>

\* mutant of CheckoutLock: the query reads the row without locking it
CheckoutLock_NoRowLock(u, p) ==
    /\ checkouts[u].pc = "locking"
    /\ p \in (DOMAIN cart[u] \cap products) \ DOMAIN checkouts[u].seen
    /\ checkouts' = [checkouts EXCEPT ![u].seen = CartPut(@, p, stock[p])]
    /\ UNCHANGED messaging
    /\ UNCHANGED <<response, products, stock, cart, orders, order_items,
                   payments, locks>>

\* select_for_update: the query takes the lock of one more row of the cart's
\* products, waiting while another transaction holds it, and reads the row
CheckoutLock(u, p) ==
    /\ checkouts[u].pc = "locking"
    /\ p \in (DOMAIN cart[u] \cap products) \ DOMAIN checkouts[u].seen
    /\ locks[p] = Unlocked
    /\ locks' = [locks EXCEPT ![p] = u]
    /\ checkouts' = [checkouts EXCEPT ![u].seen = CartPut(@, p, stock[p])]
    /\ UNCHANGED messaging
    /\ UNCHANGED <<response, products, stock, cart, orders, order_items,
                   payments>>

\* the rows transaction u still waits for
WaitsFor(u) ==
    IF checkouts[u].pc = "locking"
    THEN (DOMAIN cart[u] \cap products) \ DOMAIN checkouts[u].seen
    ELSE {}

\* the end of a transaction gives its row locks back
Release(u) == [p \in Products |-> IF locks[p] = u THEN Unlocked ELSE locks[p]]

\* two checkouts wait for each other's rows: the database ends one of them
\* with an error, and transaction.atomic rolls it back
CheckoutDeadlock(u) ==
    /\ \E v \in Buyers \ {u} :
        /\ \E p \in WaitsFor(u) : locks[p] = v
        /\ \E p \in WaitsFor(v) : locks[p] = u
    /\ locks' = Release(u)
    /\ checkouts' = [checkouts EXCEPT ![u] = NoCheckout]
    /\ response' = Resp("checkout", "500", 0, FALSE)
    /\ UNCHANGED messaging
    /\ UNCHANGED <<products, stock, cart, orders, order_items, payments>>

\* the validation loop of CheckoutView.post: what the lines of cart c bring
\* the request to, given the rows the query found; the first failing line in
\* the cart's order decides, and the model keeps no order of the lines
Verdicts(c, seen) ==
    {"404" : p \in DOMAIN c \ DOMAIN seen}
    \cup {"invalid_quantity" : p \in {q \in DOMAIN c \cap DOMAIN seen : c[q] <= 0}}
    \cup {"not_enough_stock" :
            p \in {q \in DOMAIN c \cap DOMAIN seen : c[q] > 0 /\ c[q] > seen[q]}}

\* mutant of CheckoutRefuse: a refused checkout empties the cart
CheckoutRefuse_ClearsCart(u, verdict) ==
    /\ locks' = Release(u)
    /\ checkouts' = [checkouts EXCEPT ![u] = NoCheckout]
    /\ cart' = [cart EXCEPT ![u] = EmptyCart]
    /\ response' = Resp("checkout", verdict, 0, FALSE)
    /\ UNCHANGED messaging
    /\ UNCHANGED <<products, stock, orders, order_items, payments>>

\* CheckoutView.post returns or raises from the validation loop: the
\* transaction ends having written nothing
CheckoutRefuse(u, verdict) ==
    /\ locks' = Release(u)
    /\ checkouts' = [checkouts EXCEPT ![u] = NoCheckout]
    /\ response' = Resp("checkout", verdict, 0, FALSE)
    /\ UNCHANGED messaging
    /\ UNCHANGED <<products, stock, cart, orders, order_items, payments>>

\* CheckoutView.post after the validation loop: one order and one payment
\* per farmer, in the order fs, one order item per line; each row's stock is
\* written as the value read minus the line's quantity (OrderItem.clean
\* compares with the value read, as the loop did); the cart is emptied
CheckoutPlace(u, fs) ==
    LET c == cart[u]
        seen == checkouts[u].seen
        order_of(f) == Len(orders) + CHOOSE i \in 1..Len(fs) : fs[i] = f
    IN  /\ orders' = orders \o [i \in 1..Len(fs) |->
                                    [buyer |-> u, status |-> "pending"]]
        /\ order_items' = order_items \cup
                {[order |-> order_of(ProductFarmer[p]), product |-> p,
                  quantity |-> c[p]] : p \in DOMAIN c}
        /\ payments' = payments \o [i \in 1..Len(fs) |->
                                    [order |-> Len(orders) + i,
                                     status |-> "pending"]]
        /\ stock' = [p \in Products |->
                        IF p \in DOMAIN c THEN seen[p] - c[p] ELSE stock[p]]
        /\ cart' = [cart EXCEPT ![u] = EmptyCart]
        /\ locks' = Release(u)
        /\ checkouts' = [checkouts EXCEPT ![u] = NoCheckout]
        /\ response' = Resp("checkout", "ok", Len(orders) + 1, TRUE)
        /\ UNCHANGED messaging
        /\ UNCHANGED products

\* the orders in which the farmers of cart c can come out of the grouping
FarmerOrders(c) ==
    LET fset == {ProductFarmer[p] : p \in DOMAIN c}
    IN  {fs \in [1..Cardinality(fset) -> fset] :
            \A i, j \in 1..Cardinality(fset) : fs[i] = fs[j] => i = j}

\* CheckoutView.post from the moment the query has every row of the cart's
\* products that exists, to the end of the transaction
CheckoutFinish(u) ==
    /\ checkouts[u].pc = "locking"
    /\ WaitsFor(u) = {}
    /\ IF Verdicts(cart[u], checkouts[u].seen) # {}
       THEN \E verdict \in Verdicts(cart[u], checkouts[u].seen) :
                CheckoutRefuse(u, verdict)
       ELSE \E fs \in FarmerOrders(cart[u]) : CheckoutPlace(u, fs)

\* ProductDeleteView of the product's farmer: the delete waits for the row
\* lock and cascades to the order items; the cascade to conversations is
\* left out, so only a product without conversations is deleted
ProductDelete(u, p) ==
    IF p \notin products \/ u # ProductFarmer[p]
    THEN ShopFail("product_delete", IF user_type[u] = "farmer" THEN "404" ELSE "403")
    ELSE /\ locks[p] = Unlocked
         /\ \A c \in 1..Len(conversations) : conversations[c].product # p
         /\ products' = products \ {p}
         /\ order_items' = {i \in order_items : i.product # p}
         /\ response' = Resp("product_delete", "ok", 0, FALSE)
         /\ UNCHANGED messaging
         /\ UNCHANGED <<stock, cart, orders, payments, locks, checkouts>>

\* BuyerPayOrderView.post
BuyerPayOrder(u, pk) ==
    IF user_type[u] # "buyer"
    THEN ShopFail("pay_order", "403")
    ELSE IF pk \notin DOMAIN orders
    THEN ShopFail("pay_order", "404")
    ELSE IF orders[pk].buyer # u
    THEN ShopFail("pay_order", "404")
    ELSE /\ payments' = [payments EXCEPT ![pk].status = "completed"]
         /\ orders' = IF orders[pk].status \in {"pending", "confirmed"}
                      THEN [orders EXCEPT ![pk].status = "paid"]
                      ELSE orders
         /\ response' = Resp("pay_order", "ok", pk, FALSE)
         /\ UNCHANGED messaging
         /\ UNCHANGED <<products, stock, cart, order_items, locks, checkouts>>

\* FarmerOrderStatusUpdateView.allowed_statuses
allowed_statuses == {"confirmed", "shipped", "delivered"}

\* Order.STATUS_CHOICES, and a value that is none of them
StatusInputs == {"pending", "confirmed", "paid", "shipped", "delivered", "bogus"}

\* FarmerOrderStatusUpdateView.post
FarmerOrderStatusUpdate(u, pk, new_status) ==
    IF user_type[u] # "farmer"
    THEN ShopFail("order_status", "403")
    ELSE IF ~\E i \in order_items : i.order = pk /\ ProductFarmer[i.product] = u
    THEN ShopFail("order_status", "404")
    ELSE IF new_status \notin allowed_statuses
    THEN ShopFail("order_status", "invalid_status")
    ELSE /\ orders' = [orders EXCEPT ![pk].status = new_status]
         /\ response' = Resp("order_status", "ok", pk, FALSE)
         /\ UNCHANGED messaging
         /\ UNCHANGED <<products, stock, cart, order_items, payments, locks,
                        checkouts>>

\* --------------------------------------------------------- specifications
\* every operation
Next ==
    \/ Tick /\ UNCHANGED shop
    \/ \E u \in Users, p \in Products \cup {NoSuchProduct} :
            StartProductConversation(u, p) /\ UNCHANGED shop
    \/ \E u \in Users, p \in Products \cup {NoSuchProduct}, t \in Contents :
            CreateConversation(u, p, t) /\ UNCHANGED shop
    \/ \E b \in Users, f \in Users, p \in Products \cup {NULL} :
            ModelGetOrCreate(b, f, p) /\ UNCHANGED shop
    \/ \E q \in BagToSet(reqs) : GetOrCreateInsert(q) /\ UNCHANGED shop
    \/ \E c \in 1..Len(conversations), u \in Users, t \in Contents, a \in BOOLEAN :
            ModelAppend(c, u, t, a) /\ UNCHANGED shop
    \/ \E m \in 1..Len(messages) : MarkAsRead(m) /\ UNCHANGED shop
    \/ \E u \in Users, pk \in 1..(Len(conversations) + 1), t \in Contents :
            MessageCreate(u, pk, t) /\ UNCHANGED shop
    \/ \E u \in Users, pk \in 1..(Len(conversations) + 1) :
            ConversationDetail(u, pk) /\ UNCHANGED shop
    \/ \E h \in Headers, b \in Bodies : SendAutoMessage(h, b) /\ UNCHANGED shop
    \/ \E m \in 1..Len(threads) : WebhookGuards(m) /\ UNCHANGED shop
    \/ \E m \in 1..Len(threads), o \in Outcomes : WebhookPost(m, o) /\ UNCHANGED shop

Spec == Init /\ [][Next]_vars

\* the start of a conversation and the race of get_or_create
NextConv ==
    \/ Tick /\ UNCHANGED shop
    \/ \E u \in Users, p \in Products \cup {NoSuchProduct} :
            StartProductConversation(u, p) /\ UNCHANGED shop
    \/ \E u \in Users, p \in Products \cup {NoSuchProduct}, t \in Contents :
            CreateConversation(u, p, t) /\ UNCHANGED shop
    \/ \E q \in BagToSet(reqs) : GetOrCreateInsert(q) /\ UNCHANGED shop

SpecConv == Init /\ [][NextConv]_vars

\* the two start views and the inserts of their requests, the clock standing
NextGuard ==
    \/ \E u \in Users, p \in Products \cup {NoSuchProduct} :
            StartProductConversation(u, p) /\ UNCHANGED shop
    \/ \E u \in Users, p \in Products \cup {NoSuchProduct}, t \in Contents :
            CreateConversation(u, p, t) /\ UNCHANGED shop
    \/ \E q \in BagToSet(reqs) : GetOrCreateInsert(q) /\ UNCHANGED shop

SpecGuard == Init /\ [][NextGuard]_vars

\* the start of a conversation with a first message, and its reading
NextStart ==
    \/ Tick /\ UNCHANGED shop
    \/ \E u \in Users, p \in Products \cup {NoSuchProduct}, t \in Contents :
            CreateConversation(u, p, t) /\ UNCHANGED shop
    \/ \E q \in BagToSet(reqs) : GetOrCreateInsert(q) /\ UNCHANGED shop
    \/ \E m \in 1..Len(messages) : MarkAsRead(m) /\ UNCHANGED shop
    \/ \E u \in Users, pk \in 1..(Len(conversations) + 1) :
            ConversationDetail(u, pk) /\ UNCHANGED shop

SpecStart == Init /\ [][NextStart]_vars

\* the Conversation manager called directly, with any users and any product
NextStore ==
    \/ Tick /\ UNCHANGED shop
    \/ \E b \in Users, f \in Users, p \in Products \cup {NULL} :
            ModelGetOrCreate(b, f, p) /\ UNCHANGED shop
    \/ \E q \in BagToSet(reqs) : GetOrCreateInsert(q) /\ UNCHANGED shop

SpecStore == Init /\ [][NextStore]_vars

\* The specifications of the message store start where each buyer has started
\* a conversation with f1 about p1 (two quick starts at time 0).
InitMsg ==
    /\ conversations = <<[buyer |-> "b1", farmer |-> "f1", product |-> "p1",
                          updated_at |-> 0],
                         [buyer |-> "b2", farmer |-> "f1", product |-> "p1",
                          updated_at |-> 0]>>
    /\ messages = <<>>
    /\ threads = <<>>
    /\ reqs = EmptyBag
    /\ now = 0
    /\ N8N_ENABLED \in BOOLEAN
    /\ response = NoResponse
    /\ ShopInit

\* the views on a conversation: send, read, mark read
NextMsg ==
    \/ Tick /\ UNCHANGED shop
    \/ \E m \in 1..Len(messages) : MarkAsRead(m) /\ UNCHANGED shop
    \/ \E u \in Users, pk \in 1..(Len(conversations) + 1), t \in Contents :
            MessageCreate(u, pk, t) /\ UNCHANGED shop
    \/ \E u \in Users, pk \in 1..(Len(conversations) + 1) :
            ConversationDetail(u, pk) /\ UNCHANGED shop

SpecMsg == InitMsg /\ [][NextMsg]_vars

\* a well-formed call of the automation gateway
GoodBodies ==
    [kind : {"object"},
     conversation_id : {IntVal(n) : n \in 1..Len(conversations)},
     message : {StrVal(<<"a">>)}]

\* every way of appending a message
NextAppend ==
    \/ Tick /\ UNCHANGED shop
    \/ \E c \in 1..Len(conversations), u \in Users, t \in Contents, a \in BOOLEAN :
            ModelAppend(c, u, t, a) /\ UNCHANGED shop
    \/ \E u \in Users, pk \in 1..(Len(conversations) + 1), t \in Contents :
            MessageCreate(u, pk, t) /\ UNCHANGED shop
    \/ \E b \in GoodBodies : SendAutoMessage(N8N_SECRET_KEY, b) /\ UNCHANGED shop

SpecAppend == InitMsg /\ [][NextAppend]_vars

\* the automation gateway, next to the participants of the conversations
NextApi ==
    \/ Tick /\ UNCHANGED shop
    \/ \E pk \in 1..Len(conversations), u \in Users, t \in Contents \ {<<>>} :
            MessageCreate(u, pk, t) /\ UNCHANGED shop
    \/ \E h \in Headers, b \in Bodies : SendAutoMessage(h, b) /\ UNCHANGED shop

SpecApi == InitMsg /\ [][NextApi]_vars

\* the webhook dispatcher and the operations that start its threads
NextHook ==
    \/ \E u \in Users, pk \in 1..(Len(conversations) + 1), t \in Contents :
            MessageCreate(u, pk, t) /\ UNCHANGED shop
    \/ \E b \in GoodBodies : SendAutoMessage(N8N_SECRET_KEY, b) /\ UNCHANGED shop
    \/ \E m \in 1..Len(threads) : WebhookGuards(m) /\ UNCHANGED shop
    \/ \E m \in 1..Len(threads), o \in Outcomes : WebhookPost(m, o) /\ UNCHANGED shop

SpecHook == InitMsg /\ [][NextHook]_vars

\* the life of a message of the first conversation: sent by a participant
\* or by the gateway, read, dispatched
NextLife ==
    \/ Tick /\ UNCHANGED shop
    \/ \E u \in {conversations[1].buyer, conversations[1].farmer} :
            MessageCreate(u, 1, <<"a">>) /\ UNCHANGED shop
    \/ \E b \in GoodBodies :
            b.conversation_id = IntVal(1) /\ SendAutoMessage(N8N_SECRET_KEY, b) /\ UNCHANGED shop
    \/ \E m \in 1..Len(messages) : MarkAsRead(m) /\ UNCHANGED shop
    \/ \E m \in 1..Len(threads) : WebhookGuards(m) /\ UNCHANGED shop
    \/ \E m \in 1..Len(threads), o \in {"200", "ConnectTimeoutError"} :
            WebhookPost(m, o) /\ UNCHANGED shop

SpecLife == InitMsg /\ [][NextLife]_vars

\* the dispatcher and the messages the participants send
NextDispatch ==
    \/ \E pk \in 1..Len(conversations) :
        \E u \in {conversations[pk].buyer, conversations[pk].farmer} :
            MessageCreate(u, pk, <<"a">>) /\ UNCHANGED shop
    \/ \E m \in 1..Len(threads) : WebhookGuards(m) /\ UNCHANGED shop
    \/ \E m \in 1..Len(threads), o \in Outcomes : WebhookPost(m, o) /\ UNCHANGED shop

\* the dispatcher under its scheduling: a started thread gets to run, and
\* every POST attempt ends, at the latest by its timeout
SpecDispatchFair ==
    /\ InitMsg
    /\ [][NextDispatch]_vars
    /\ \A m \in 1..MaxMsgs :
        /\ WF_vars(WebhookGuards(m) /\ UNCHANGED shop)
        /\ WF_vars(\E o \in Outcomes : WebhookPost(m, o) /\ UNCHANGED shop)

\* the shop opens with no conversation; no shop view reads the webhook
\* setting
InitShop == Init /\ ~N8N_ENABLED

\* concurrent checkouts: the buyers fill their carts and check out
NextCheckout ==
    \/ \E u \in Buyers, p \in Products, raw \in Quantities : CartAdd(u, p, raw)
    \/ \E u \in Buyers : Len(orders) < MaxOrders /\ CheckoutBegin(u)
    \/ \E u \in Buyers, p \in Products : CheckoutLock(u, p)
    \/ \E u \in Buyers : CheckoutDeadlock(u)
    \/ \E u \in Buyers : CheckoutFinish(u)

SpecCheckout == InitShop /\ [][NextCheckout]_vars

\* the session cart of b1 while b2 buys: every cart request of b1, and b2
\* adding to the cart and checking out
NextCart ==
    \/ \E u \in Buyers, p \in Products, raw \in Quantities : CartAdd(u, p, raw)
    \/ \E p \in Products : CartRemove("b1", p)
    \/ \E in \in UpdateForms : CartUpdate("b1", in.remove, in.form)
    \/ Len(orders) < MaxOrders /\ CheckoutBegin("b2")
    \/ \E p \in Products : CheckoutLock("b2", p)
    \/ CheckoutFinish("b2")

SpecCart == InitShop /\ [][NextCart]_vars

\* checkouts of carts that have gone stale: b1 adds to the cart and updates
\* it, b2 buys the first product, the farmer takes products off the
\* catalogue (b2 locks one row only, so no two checkouts wait for each other)
NextShop ==
    \/ \E p \in Products : CartAdd("b1", p, IntVal(1))
    \/ CartAdd("b2", "p1", IntVal(1))
    \/ \E in \in UpdateForms : CartUpdate("b1", in.remove, in.form)
    \/ \E u \in Buyers : Len(orders) < MaxOrders /\ CheckoutBegin(u)
    \/ \E u \in Buyers, p \in Products : CheckoutLock(u, p)
    \/ \E u \in Buyers : CheckoutFinish(u)
    \/ \E p \in Products : ProductDelete("f1", p)

SpecShop == InitShop /\ [][NextShop]_vars

\* the life of the orders of b1: a checkout of the first product, then the
\* buyers' pay requests and the farmers' status updates
NextOrders ==
    \/ CartAdd("b1", "p1", IntVal(1))
    \/ Len(orders) < MaxOrders /\ CheckoutBegin("b1")
    \/ CheckoutLock("b1", "p1")
    \/ CheckoutFinish("b1")
    \/ \E u \in Buyers, pk \in 1..(Len(orders) + 1) : BuyerPayOrder(u, pk)
    \/ \E u \in {"f1", "f2"}, pk \in 1..(Len(orders) + 1), t \in StatusInputs :
            FarmerOrderStatusUpdate(u, pk, t)

SpecOrders == InitShop /\ [][NextOrders]_vars

\* ================================================================= claims
\* rows of the Conversation table with the triple (b, f, p)
RowsOfTriple(convs, b, f, p) ==
    {i \in 1..Len(convs) :
        convs[i].buyer = b /\ convs[i].farmer = f /\ convs[i].product = p}

\* a step in which a get-or-create call for (u, ProductFarmer[p], p) returns:
\* a lookup that hits, or the insert of a request whose lookup missed
ReturnsFor(u, p) ==
    \/ /\ reqs' = reqs
       /\ \/ StartProductConversation(u, p)
          \/ \E t \in Contents : Strip(t) # <<>> /\ CreateConversation(u, p, t)
    \/ \E q \in BagToSet(reqs) :
            q.user = u /\ q.product = p /\ GetOrCreateInsert(q)

\* the latest handler was a get-or-create that returned a conversation
ReturnedConversation(r) ==
    /\ r.op \in {"start_product_conversation", "create_conversation"}
    /\ r.status = "302"

\* C1: a get-or-create call by buyer u for product p that returns, returns a
\* conversation with the triple (u, farmer of p, p), the only stored one with
\* that triple; when the call before it returned a conversation with the same
\* triple, it returns the same id and reports that nothing was created.
C1_GetOrCreateIdempotent ==
    [][(/\ ReturnedConversation(response')
        /\ now' = now
        /\ BagCardinality(reqs') <= BagCardinality(reqs))
       => \A u \in Users, p \in Products :
        (/\ user_type[u] = "buyer"
         /\ ReturnsFor(u, p))
        => LET rows == RowsOfTriple(conversations', u, ProductFarmer[p], p) IN
           /\ rows = {response'.id}
           /\ (/\ ReturnedConversation(response)
               /\ response.id \in RowsOfTriple(conversations, u, ProductFarmer[p], p))
              => /\ response'.id = response.id
                 /\ response'.created = FALSE
                 /\ Len(conversations') = Len(conversations)]_vars

\* C1 witness: a quick start found the conversation an earlier call created
C1_Witness ==
    /\ response.op = "start_product_conversation"
    /\ response.status = "302"
    /\ response.created = FALSE
    /\ response.id \in DOMAIN conversations

\* no two rows of the Conversation table have the same triple
NoDuplicateTriple(convs) ==
    \A i, j \in 1..Len(convs) :
        (/\ convs[i].buyer = convs[j].buyer
         /\ convs[i].farmer = convs[j].farmer
         /\ convs[i].product = convs[j].product) => i = j

\* C2: under every interleaving of the lookups and inserts of concurrent
\* get-or-create calls no state holds two conversations with the same triple,
\* and a call whose insert meets a row with its triple adds no row and returns
\* that row with created = false.
C2_NoDuplicateUnderRace ==
    /\ [](NoDuplicateTriple(conversations))
    /\ [][\A q \in BagToSet(reqs) :
            (/\ GetOrCreateInsert(q)
             /\ RowsOfTriple(conversations, q.user, q.farmer, q.product) # {})
            => /\ Len(conversations') = Len(conversations)
               /\ response'.id \in
                    RowsOfTriple(conversations, q.user, q.farmer, q.product)
               /\ response'.created = FALSE]_vars

\* C2 witness: a request is past its lookup, which missed, and meanwhile
\* another request has inserted the row with its triple
C2_Witness ==
    \E q \in BagToSet(reqs) :
        RowsOfTriple(conversations, q.user, q.farmer, q.product) # {}

\* C3: every stored conversation has a buyer of role buyer, a farmer of role
\* farmer, and two different participants.
C3_ParticipantRoles ==
    \A i \in 1..Len(conversations) :
        /\ user_type[conversations[i].buyer] = "buyer"
        /\ user_type[conversations[i].farmer] = "farmer"
        /\ conversations[i].buyer # conversations[i].farmer

\* C3 witness: a conversation is stored and a start request was refused
C3_Witness ==
    /\ Len(conversations) > 0
    /\ response.op \in {"start_product_conversation", "create_conversation"}
    /\ response.status = "403"

\* the participants of conversation c
Participants(c) == {conversations[c].buyer, conversations[c].farmer}

\* C4: the sender of every stored message is the buyer or the farmer of the
\* message's conversation, and an append by a sender who is neither raises
\* ValidationError and leaves the messages, the conversations (their
\* last-activity timestamps) and the webhook threads as they were.
C4_SenderIsParticipant ==
    /\ [](\A m \in 1..Len(messages) :
            messages[m].sender \in Participants(messages[m].conversation))
    /\ [][\/ /\ response'.status = "ValidationError"
              /\ UNCHANGED <<messages, conversations, threads>>
           \/ ~ \E c \in 1..Len(conversations), u \in Users, t \in Contents,
                    a \in BOOLEAN :
                    /\ response'.op = "append"
                    /\ u \notin Participants(c)
                    /\ ModelAppend(c, u, t, a)]_vars

\* C4 witness: an append was refused after the clock moved on, with messages
\* of both participants of a conversation stored
C4_Witness ==
    /\ response.op = "append"
    /\ response.status = "ValidationError"
    /\ \E m \in 1..Len(messages) :
            /\ messages[m].sender = conversations[messages[m].conversation].farmer
            /\ conversations[messages[m].conversation].updated_at < now

\* C5: a thread that has sent a POST belongs to a message that is not
\* automated and was written by the buyer of its conversation, and dispatch
\* is enabled; a thread of any other message ends without a POST and without
\* an error.
C5_NoPostWhenGuarded ==
    \A m \in 1..Len(threads) :
        LET guarded == \/ messages[m].is_automated
                       \/ ~N8N_ENABLED
                       \/ messages[m].sender #
                            conversations[messages[m].conversation].buyer
        IN  /\ guarded => threads[m].posts = 0 /\ threads[m].pc # "post"
            /\ (guarded /\ threads[m].pc = "done") => threads[m].log = "returned"

\* C5 witness: with dispatch enabled one thread has sent a POST and the
\* thread of a farmer's message has ended without one
C5_Witness ==
    /\ N8N_ENABLED
    /\ \E m \in 1..Len(threads) : threads[m].posts > 0
    /\ \E m \in 1..Len(threads) :
            /\ messages[m].sender = conversations[messages[m].conversation].farmer
            /\ ~messages[m].is_automated
            /\ threads[m].pc = "done"

\* what trigger_n8n_webhook logs when it ends
Logged == {"returned", "info_success", "warning_status", "error_timeout",
           "error_connection", "error_other"}

\* C6: every thread belongs to a stored message and ends in one of the logging
\* branches of the dispatcher, whatever its POST attempts end with; a step of
\* a thread changes no message, no conversation and no response of a request.
C6_DispatchFailuresContained ==
    /\ [](\A m \in 1..Len(threads) :
            /\ m \in 1..Len(messages)
            /\ threads[m].pc = "done" => threads[m].log \in Logged)
    /\ [][(\E m \in 1..Len(threads) :
                WebhookGuards(m) \/ \E o \in Outcomes : WebhookPost(m, o))
            => UNCHANGED <<messages, conversations, response>>]_vars

\* C6 witness: the message a view appended is stored and its thread has ended
\* on an unexpected exception, after the view answered with its redirect
C6_Witness ==
    /\ response.op = "message_create"
    /\ response.status = "302"
    /\ response.id \in 1..Len(messages)
    /\ threads[response.id].pc = "done"
    /\ threads[response.id].log = "error_other"

\* C7: a call of the gateway whose X-AUTO-SECRET header is missing or is not
\* the configured secret returns 401 and changes no message, no conversation
\* and no webhook thread, whatever its body is.
C7_BadSecretChangesNothing ==
    [][\/ /\ response' = Resp("send_auto_message", "401", 0, FALSE)
          /\ UNCHANGED <<messages, conversations, threads>>
       \/ ~ \E h \in Headers \ {N8N_SECRET_KEY}, b \in Bodies :
                response'.op = "send_auto_message" /\ SendAutoMessage(h, b)]_vars

\* C7 witness: a call was answered with 401 while a conversation had a
\* last-activity timestamp earlier than the clock
C7_Witness ==
    /\ response.op = "send_auto_message"
    /\ response.status = "401"
    /\ \E c \in 1..Len(conversations) : conversations[c].updated_at < now

\* C8: a call of the gateway with the right secret, the id of a stored
\* conversation and a message that is not blank adds exactly one message, in
\* that conversation, sent by its farmer, automated and unread, returns 201
\* with the message's id, and starts no webhook thread for it; no automated
\* message ever has a webhook thread.
C8_AutomatedReply ==
    /\ [](\A m \in 1..Len(messages) :
            messages[m].is_automated => threads[m].pc = "none" /\ threads[m].posts = 0)
    /\ [][\A c \in 1..Len(conversations), t \in Contents :
            (/\ response'.op = "send_auto_message"
             /\ Strip(t) # <<>>
             /\ SendAutoMessage(N8N_SECRET_KEY,
                    [kind |-> "object", conversation_id |-> IntVal(c),
                     message |-> StrVal(t)]))
            => /\ Len(messages') = Len(messages) + 1
               /\ SubSeq(messages', 1, Len(messages)) = messages
               /\ messages'[Len(messages')] =
                    [conversation |-> c, sender |-> conversations[c].farmer,
                     content |-> Strip(t), timestamp |-> now,
                     is_read |-> FALSE, is_automated |-> TRUE]
               /\ response' = Resp("send_auto_message", "201", Len(messages'), TRUE)
               /\ Len(threads') = Len(messages')
               /\ threads'[Len(threads')].pc = "none"]_vars

\* C8 witness: the gateway has answered 201 for the message it created
C8_Witness ==
    /\ response.op = "send_auto_message"
    /\ response.status = "201"
    /\ response.id \in 1..Len(messages)
    /\ messages[response.id].is_automated

\* C9: the detail request and the send request of a user who is neither the
\* buyer nor the farmer of the conversation fail with 403 and change no
\* message (no read flag), no conversation and no webhook thread.
C9_OutsiderRefused ==
    [][\A u \in Users, pk \in 1..Len(conversations) :
        (/\ response'.op \in {"conversation_detail", "message_create"}
         /\ u \notin Participants(pk)
         /\ \/ ConversationDetail(u, pk)
            \/ \E t \in Contents : MessageCreate(u, pk, t))
        => /\ response'.status = "403"
           /\ UNCHANGED <<messages, conversations, threads>>]_vars

\* C9 witness: an outsider's detail request was refused while a conversation
\* held an unread message and had not been touched since the clock moved
C9_Witness ==
    /\ response.op = "conversation_detail"
    /\ response.status = "403"
    /\ \E m \in 1..Len(messages) :
            /\ ~messages[m].is_read
            /\ conversations[messages[m].conversation].updated_at < now

\* the unread messages of conversation c not sent by user, counted row by row
RECURSIVE UnreadOthers(_, _, _)
UnreadOthers(msgs, c, user) ==
    IF msgs = <<>> THEN 0
    ELSE UnreadOthers(Tail(msgs), c, user)
         + (IF /\ Head(msgs).conversation = c
               /\ ~Head(msgs).is_read
               /\ Head(msgs).sender # user
            THEN 1 ELSE 0)

\* C10: unread_count(c, user) is the number of messages of c that are unread
\* and not sent by user; mark_as_read lowers it by exactly one when the message
\* is an unread message of c that user did not send, and leaves it unchanged
\* otherwise (the message is read already, or is user's own).
C10_UnreadCount ==
    /\ [](\A c \in 1..Len(conversations), u \in Users :
            unread_count(messages, c, u) = UnreadOthers(messages, c, u))
    /\ [][\A m \in 1..Len(messages) :
            (response'.op = "mark_as_read" /\ MarkAsRead(m))
            => \A c \in 1..Len(conversations), u \in Users :
                unread_count(messages', c, u) =
                    unread_count(messages, c, u)
                    - (IF /\ messages[m].conversation = c
                          /\ ~messages[m].is_read
                          /\ messages[m].sender # u
                       THEN 1 ELSE 0)]_vars

\* C10 witness: a message was marked read while another message of the same
\* conversation, from the other participant, is still unread
C10_Witness ==
    /\ response.op = "mark_as_read"
    /\ response.id \in 1..Len(messages)
    /\ messages[response.id].is_read
    /\ \E m \in 1..Len(messages) :
            /\ messages[m].conversation = messages[response.id].conversation
            /\ messages[m].sender # messages[response.id].sender
            /\ ~messages[m].is_read

\* the ids of the messages of conversation c in the order of their appends
InsertionOrder(msgs, c) ==
    SelectSeq([i \in 1..Len(msgs) |-> i], LAMBDA i : msgs[i].conversation = c)

\* C11: every listing of a conversation shows its messages in the order of
\* their appends, also when messages have the same timestamp; two listings
\* with no append in between therefore show the same order.
C11_ListedInAppendOrder ==
    (response.op = "conversation_detail" /\ response.status = "200")
        => response.listed = InsertionOrder(messages, response.id)

\* C12: a call of the gateway with the right secret, a message that is not
\* blank and a conversation_id that is the id of no stored conversation
\* returns 404 and creates no message.
C12_UnknownConversationIs404 ==
    [][\A t \in Contents :
        (/\ response'.op = "send_auto_message"
         /\ Strip(t) # <<>>
         /\ SendAutoMessage(N8N_SECRET_KEY,
                [kind |-> "object",
                 conversation_id |-> IntVal(Len(conversations) + 1),
                 message |-> StrVal(t)]))
        => /\ response'.status = "404"
           /\ UNCHANGED messages]_vars

\* the body is a JSON object of the documented shape, with an integer
\* conversation_id and a message that is a string and not blank
DocumentedShape(b) ==
    /\ b.kind = "object"
    /\ b.conversation_id.type = "int"
    /\ b.message.type = "str"
    /\ Strip(b.message.val) # <<>>

\* C13: a call of the gateway with the right secret returns 400 and creates
\* no message when the body is not JSON, is JSON of another shape than
\* {conversation_id: int, message: string}, has no conversation_id, or has no
\* message or a blank one.
C13_BadBodyIs400 ==
    [][\A b \in Bodies :
        (/\ response'.op = "send_auto_message"
         /\ ~DocumentedShape(b)
         /\ SendAutoMessage(N8N_SECRET_KEY, b))
        => /\ response'.status = "400"
           /\ UNCHANGED messages]_vars

\* C14: when the endpoint answers the first and the second POST of a thread
\* with 503, the thread retries after each of them, and when it answers a POST
\* with 200 the thread ends by logging success.
C14_RetriesAfter503 ==
    [][\A m \in 1..Len(threads) :
        /\ (/\ threads[m].pc = "post"
            /\ threads[m].posts < RETRIES
            /\ WebhookPost(m, "503"))
           => /\ threads'[m].pc = "post"
              /\ threads'[m].posts = threads[m].posts + 1
        /\ (threads[m].pc = "post" /\ WebhookPost(m, "200"))
           => /\ threads'[m].pc = "done"
              /\ threads'[m].log = "info_success"]_vars

\* C15: when the endpoint answers a POST with 404 the thread does not retry:
\* it ends with that attempt, logging the status once as a warning, so a
\* thread whose first POST is answered with 404 has made exactly one attempt;
\* a thread that has ended never posts or logs again.
C15_NoRetryAfter404 ==
    [][\A m \in 1..Len(threads) :
        /\ (threads[m].pc = "post" /\ WebhookPost(m, "404"))
           => /\ threads'[m].pc = "done"
              /\ threads'[m].log = "warning_status"
              /\ threads'[m].posts = threads[m].posts + 1
              /\ UNCHANGED <<messages, conversations, response>>
        /\ threads[m].pc = "done" => threads'[m] = threads[m]]_vars

\* C15 witness: the thread of a buyer's message has ended after a single POST
\* by logging the status it was answered with
C15_Witness ==
    \E m \in 1..Len(threads) :
        /\ threads[m].pc = "done"
        /\ threads[m].posts = 1
        /\ threads[m].log = "warning_status"
        /\ messages[m].sender = conversations[messages[m].conversation].buyer

\* C16: an append by a participant with content that is empty or only
\* whitespace raises ValidationError and stores nothing, whether automated or
\* not; no stored message has content that is empty after trimming.
C16_BlankContentRejected ==
    /\ [](\A m \in 1..Len(messages) : Strip(messages[m].content) # <<>>)
    /\ [][\A c \in 1..Len(conversations), t \in Contents, a \in BOOLEAN :
            \A u \in Participants(c) :
                (/\ response'.op = "append"
                 /\ Strip(t) = <<>>
                 /\ ModelAppend(c, u, t, a))
                => /\ response'.status = "ValidationError"
                   /\ UNCHANGED <<messages, conversations, threads>>]_vars

\* the triple (b, f, p) breaks a participant rule of Conversation.clean
BreaksParticipantRule(b, f) ==
    \/ b = f
    \/ user_type[b] # "buyer"
    \/ user_type[f] # "farmer"

\* C17: a get-or-create call whose triple has no stored conversation and
\* breaks a participant rule (the buyer is no buyer, the farmer is no farmer,
\* or they are the same user) stores no conversation: no stored conversation
\* breaks a rule, and the insert of such a call adds no row and fails with
\* ValidationError.
C17_BadTripleRejected ==
    /\ [](\A i \in 1..Len(conversations) :
            ~BreaksParticipantRule(conversations[i].buyer, conversations[i].farmer))
    /\ [][\A q \in BagToSet(reqs) :
            (/\ BreaksParticipantRule(q.user, q.farmer)
             /\ RowsOfTriple(conversations, q.user, q.farmer, q.product) = {}
             /\ GetOrCreateInsert(q))
            => /\ conversations' = conversations
               /\ response'.status = "ValidationError"]_vars

\* C18: a quick start or a start with a message for a product, by a user who
\* is no buyer or who is the account of the product's farmer, fails with 403
\* (PermissionDenied) and creates no conversation and no message, and leaves
\* no request inside get_or_create.
C18_StartRefused ==
    [][\/ /\ response'.status = "403"
          /\ UNCHANGED <<conversations, messages, threads, reqs>>
       \/ ~ \E u \in Users, p \in Products :
                /\ user_type[u] # "buyer" \/ u = ProductFarmer[p]
                /\ \/ StartProductConversation(u, p)
                   \/ \E t \in Contents : CreateConversation(u, p, t)]_vars

\* C18 witness: a start with a message was refused while a conversation with
\* a message is stored
C18_Witness ==
    /\ response.op = "create_conversation"
    /\ response.status = "403"
    /\ Len(conversations) > 0
    /\ Len(messages) > 0

\* C19: when the start with a message of buyer B for a product of farmer F
\* inserts its conversation, no row with the triple being stored, then
\* afterwards exactly one conversation has the triple, the call reports it as
\* created, it holds exactly one message, B's text, unread_count is 1 for F
\* and 0 for B; and when the only message of a conversation is the buyer's
\* and the farmer marks it read (mark_as_read, or opening the conversation),
\* unread_count for the farmer is 0 afterwards.
C19_FirstMessageUnread ==
    [][/\ \A q \in BagToSet(reqs) :
            (/\ BagCardinality(reqs') < BagCardinality(reqs)
             /\ q.view = "create"
             /\ RowsOfTriple(conversations, q.user, q.farmer, q.product) = {}
             /\ GetOrCreateInsert(q))
            => LET rows == RowsOfTriple(conversations', q.user, q.farmer,
                                        q.product)
               IN  /\ rows = {response'.id}
                   /\ response'.created
                   /\ \A c \in rows :
                        /\ Cardinality(MessagesOf(messages', c)) = 1
                        /\ \A m \in MessagesOf(messages', c) :
                            /\ messages'[m].sender = q.user
                            /\ messages'[m].content = q.content
                            /\ ~messages'[m].is_read
                        /\ unread_count(messages', c, q.farmer) = 1
                        /\ unread_count(messages', c, q.user) = 0
       /\ \A c \in 1..Len(conversations), m \in 1..Len(messages) :
            (/\ response'.op \in {"mark_as_read", "conversation_detail"}
             /\ now' = now
             /\ MessagesOf(messages, c) = {m}
             /\ messages[m].sender = conversations[c].buyer
             /\ \/ MarkAsRead(m)
                \/ ConversationDetail(conversations[c].farmer, c))
            => unread_count(messages', c, conversations[c].farmer) = 0]_vars

\* C19 witness: the farmer has opened a conversation the buyer started with
\* a message, its only one, which is now read
C19_Witness ==
    /\ response.op = "conversation_detail"
    /\ response.status = "200"
    /\ \E m \in 1..Len(messages) :
        /\ MessagesOf(messages, response.id) = {m}
        /\ messages[m].sender = conversations[response.id].buyer
        /\ messages[m].is_read

\* C20: no two stored conversations have the same buyer, the same farmer and
\* no product, also after get-or-create calls without a product that race
\* (stated for the conversations of a buyer with a farmer, which break no
\* participant rule).
C20_NoDuplicateNullProduct ==
    \A i, j \in 1..Len(conversations) :
        (/\ ~BreaksParticipantRule(conversations[i].buyer, conversations[i].farmer)
         /\ conversations[i].product = NULL
         /\ conversations[j].product = NULL
         /\ conversations[i].buyer = conversations[j].buyer
         /\ conversations[i].farmer = conversations[j].farmer) => i = j

\* C21: the step that appends a message returns to its caller in that step
\* (the response names the new message) with the message's webhook thread
\* started but not run: it has sent no POST, and no thread has moved, so the
\* append waits for no webhook call, its own or an earlier one.
C21_AppendDoesNotWait ==
    [][Len(messages') > Len(messages)
        => /\ Len(messages') = Len(messages) + 1
           /\ response'.id = Len(messages')
           /\ response'.status \in {"302", "201"}
           /\ threads'[Len(messages')].posts = 0
           /\ threads'[Len(messages')].pc \in {"started", "none"}
           /\ SubSeq(threads', 1, Len(threads)) = threads]_vars

\* C21 witness: a view has answered the append of the second message while
\* the thread of the first is inside its POST and the second's has not run
C21_Witness ==
    /\ response.op = "message_create"
    /\ response.status = "302"
    /\ response.id = 2
    /\ Len(threads) = 2
    /\ threads[1].pc = "post"
    /\ threads[2].pc = "started"

\* C22: the last-activity timestamp of a conversation is not earlier than the
\* timestamp of any of its messages and never decreases, and every step that
\* appends a message (a direct append, the send view, the gateway) sets the
\* last-activity timestamp of the message's conversation to the time of the
\* append.
C22_AppendTouches ==
    /\ [](\A m \in 1..Len(messages) :
            conversations[messages[m].conversation].updated_at
                >= messages[m].timestamp)
    /\ [][/\ \A c \in 1..Len(conversations) :
                conversations'[c].updated_at >= conversations[c].updated_at
           /\ Len(messages') > Len(messages)
                => conversations'[messages'[Len(messages')].conversation].updated_at
                        = now]_vars

\* C22 witness: the gateway has appended a message to a conversation that
\* already held an older one, and the conversation carries the later time
C22_Witness ==
    /\ response.op = "send_auto_message"
    /\ response.status = "201"
    /\ \E m \in 1..Len(messages) :
        /\ messages[m].conversation = messages[response.id].conversation
        /\ messages[m].timestamp < messages[response.id].timestamp
        /\ conversations[messages[m].conversation].updated_at
                = messages[response.id].timestamp

\* C23: mark_as_read leaves the message read and changes nothing else of it
\* and no other message; on a message that is read already it changes
\* nothing at all; it always returns without an error; and no step of any
\* operation takes the read flag of a message from true back to false.
C23_MarkReadOneWay ==
    [][/\ \A m \in 1..Len(messages) :
            (response'.op = "mark_as_read" /\ now' = now /\ MarkAsRead(m))
            => /\ messages' = [messages EXCEPT ![m].is_read = TRUE]
               /\ messages[m].is_read => messages' = messages
               /\ response'.status = "ok"
       /\ \A m \in 1..Len(messages) :
            messages[m].is_read
                => m \in 1..Len(messages') /\ messages'[m].is_read]_vars

\* C23 witness: mark_as_read has returned for a message that is read, in a
\* conversation that holds a newer message still unread
C23_Witness ==
    /\ response.op = "mark_as_read"
    /\ response.status = "ok"
    /\ response.id \in 1..Len(messages)
    /\ messages[response.id].is_read
    /\ \E m \in 1..Len(messages) :
        /\ m > response.id
        /\ messages[m].conversation = messages[response.id].conversation
        /\ ~messages[m].is_read

\* message m has a webhook thread that has not ended
ThreadRunning(m) ==
    IF m \in 1..Len(threads) THEN threads[m].pc \in {"started", "post"} ELSE FALSE

\* the webhook thread of message m has ended
ThreadEnded(m) ==
    IF m \in 1..Len(threads) THEN threads[m].pc = "done" ELSE FALSE

\* C24: a thread makes at most 1 + RETRIES POST attempts; every attempt,
\* whatever it ends with (a status, a timeout, a failure to connect), counts;
\* the attempt that uses the budget up ends the thread with its failure
\* logged; a thread that has ended makes no further attempt; and every
\* thread ends.
C24_BoundedAttempts ==
    /\ [](\A m \in 1..Len(threads) :
            /\ threads[m].posts <= 1 + RETRIES
            /\ (threads[m].posts = 1 + RETRIES)
                => /\ threads[m].pc = "done"
                   /\ threads[m].log \in Logged \ {"returned"})
    /\ [][\A m \in 1..Len(threads) :
            /\ (threads[m].pc = "post" /\ \E o \in Outcomes : WebhookPost(m, o))
                => threads'[m].posts = threads[m].posts + 1
            /\ (/\ threads[m].pc = "post"
                /\ threads[m].posts = RETRIES
                /\ \E o \in ConnectErrors \cup ReadErrors : WebhookPost(m, o))
                => /\ threads'[m].pc = "done"
                   /\ threads'[m].log \in {"error_timeout", "error_connection"}
            /\ threads[m].pc = "done" => threads'[m] = threads[m]]_vars
    /\ \A m \in 1..MaxMsgs : ThreadRunning(m) ~> ThreadEnded(m)

\* C24 witness: a thread has used its budget up on attempts that failed to
\* connect and has ended with the failure logged
C24_Witness ==
    \E m \in 1..Len(threads) :
        /\ threads[m].posts = 1 + RETRIES
        /\ threads[m].pc = "done"
        /\ threads[m].log = "error_connection"

\* C25: when a participant u opens the detail view of conversation pk, every
\* message of pk not sent by u is read afterwards, so unread_count(pk, u) is
\* 0; the messages u sent and the messages of other conversations are as
\* they were, so the other participant's unread count is unchanged; no
\* message is added, no conversation is touched and no webhook thread is
\* started or moved.
C25_DetailMarksOthersRead ==
    [][\A pk \in 1..Len(conversations) : \A u \in Participants(pk) :
        (/\ response'.op = "conversation_detail"
         /\ now' = now
         /\ ConversationDetail(u, pk))
        => /\ response'.status = "200"
           /\ Len(messages') = Len(messages)
           /\ \A m \in 1..Len(messages) :
                IF messages[m].conversation = pk /\ messages[m].sender # u
                THEN messages'[m] = [messages[m] EXCEPT !.is_read = TRUE]
                ELSE messages'[m] = messages[m]
           /\ unread_count(messages', pk, u) = 0
           /\ \A v \in Participants(pk) \ {u} :
                unread_count(messages', pk, v) = unread_count(messages, pk, v)
           /\ UNCHANGED <<conversations, threads>>]_vars

\* C25 witness: a participant has opened a conversation in which a message
\* of the other side is now read and a message of their own is still unread
C25_Witness ==
    /\ response.op = "conversation_detail"
    /\ response.status = "200"
    /\ \E m, n \in 1..Len(messages) :
        /\ messages[m].conversation = response.id
        /\ messages[n].conversation = response.id
        /\ messages[m].sender # messages[n].sender
        /\ messages[m].is_read
        /\ ~messages[n].is_read

\* C26: every message has one webhook thread record, made by the step that
\* inserted the message and started only if the message is not automated; no
\* later step starts a thread for a stored message again or takes a thread
\* back to an earlier attempt; mark_as_read changes no thread and no
\* conversation (no last-activity timestamp).
C26_DispatchOncePerMessage ==
    /\ [](/\ Len(threads) = Len(messages)
          /\ \A m \in 1..Len(messages) :
               messages[m].is_automated <=> threads[m] = NoThread)
    /\ [][/\ \A m \in 1..Len(threads) :
               /\ (threads'[m].pc = "started" => threads'[m] = threads[m])
               /\ threads'[m].posts >= threads[m].posts
               /\ (threads[m].pc \in {"done", "none"}
                       => threads'[m] = threads[m])
          /\ (Len(threads') > Len(threads)
               => /\ Len(messages') = Len(messages) + 1
                  /\ Len(threads') = Len(threads) + 1)
          /\ ((response'.op = "mark_as_read" /\ now' = now
                   /\ \E m \in 1..Len(messages) : MarkAsRead(m))
               => UNCHANGED <<threads, conversations>>)]_vars

\* C26 witness: a message whose dispatch has ended was marked read after
\* the clock moved on, and its conversation still carries the earlier time
C26_Witness ==
    /\ response.op = "mark_as_read"
    /\ response.id \in 1..Len(messages)
    /\ messages[response.id].is_read
    /\ threads[response.id].pc = "done"
    /\ threads[response.id].posts > 0
    /\ conversations[messages[response.id].conversation].updated_at < now

\* the sum of the quantities of a set of order items
RECURSIVE SumQuantity(_)
SumQuantity(items) ==
    IF items = {} THEN 0
    ELSE LET i == CHOOSE x \in items : TRUE
         IN  i.quantity + SumQuantity(items \ {i})

\* the units of product p in the order items
Sold(p) == SumQuantity({i \in order_items : i.product = p})

\* C27: whatever way the checkouts of the buyers interleave, no product's
\* quantity_available is negative, and the quantities of the order items of
\* a product add up to what its stock has gone down by since the shop opened.
C27_NeverOversells ==
    \A p \in Products :
        /\ stock[p] >= 0
        /\ Sold(p) = MaxStock - stock[p]

\* C27 witness: b1's checkout waits for a row b2's checkout holds, the two
\* carts together ask for more of that product than there is
C27_Witness ==
    \E p \in WaitsFor("b1") :
        /\ locks[p] = "b2"
        /\ Quantity(cart["b1"], p) + Quantity(cart["b2"], p) > stock[p]
        /\ Quantity(cart["b1"], p) <= stock[p]
        /\ stock[p] < MaxStock

\* a line of the cart of u that the validation loop turns away
Flawed(u) ==
    \E p \in DOMAIN cart[u] :
        p \notin products \/ cart[u][p] <= 0 \/ cart[u][p] > stock[p]

\* C28: a checkout of an empty cart, or of a cart with a line whose quantity
\* is 0 or less or more than the product's stock or whose product is gone,
\* creates no order, order item or payment, changes no stock and leaves the
\* cart as it was.
C28_CheckoutAllOrNothing ==
    [][\A u \in Buyers :
        /\ (DOMAIN cart[u] = {} /\ response'.op = "checkout"
                /\ CheckoutBegin(u))
            => UNCHANGED <<stock, cart, orders, order_items, payments>>
        /\ (checkouts[u].pc = "locking" /\ checkouts'[u].pc = "idle"
                /\ Flawed(u) /\ CheckoutFinish(u))
            => UNCHANGED <<stock, cart, orders, order_items, payments>>]_vars

\* C28 witness: a checkout was refused for a line with no unit in it, and
\* the line is still in the cart
C28_Witness ==
    /\ response.op = "checkout"
    /\ response.status = "invalid_quantity"
    /\ \E p \in DOMAIN cart["b1"] : cart["b1"][p] <= 0
    /\ orders # <<>>

\* the place of a status in the lifecycle
Rank(status) ==
    CASE status = "pending" -> 1
      [] status = "confirmed" -> 2
      [] status = "paid" -> 3
      [] status = "shipped" -> 4
      [] status = "delivered" -> 5

\* C29: no pay request and no status update takes an order to an earlier
\* status of pending -> confirmed -> paid -> shipped -> delivered.
C29_StatusNeverBackwards ==
    [][\A pk \in 1..Len(orders) :
        Rank(orders'[pk].status) >= Rank(orders[pk].status)]_vars

\* C30: every line of a session cart holds at least one unit; a cart
\* request stores no more units of a product than its stock at that moment.
C30_CartWithinStock ==
    /\ [](\A u \in Buyers : \A p \in DOMAIN cart[u] : cart[u][p] >= 1)
    /\ [][response'.op \in {"cart_add", "cart_update"}
            => \A u \in Buyers : \A p \in DOMAIN cart'[u] :
                (p \notin DOMAIN cart[u] \/ cart'[u][p] # cart[u][p])
                    => cart'[u][p] <= stock[p]]_vars

====
